---- MODULE Spec2Model ----
(***************************************************************************)
(* pyvista/plotting/camera.py: class Camera(vtk.vtkCamera).                *)
(*                                                                         *)
(* The descriptor keeps three fields of its own (_position, _focus,        *)
(* _is_parallel_projection) and forwards everything else to the engine it  *)
(* inherits from.  The engine is the record `engine`; its methods are the  *)
(* operators of the section "engine", which follow vtkCamera: they are not *)
(* part of camera.py.                                                      *)
(*                                                                         *)
(* Numbers.  The engine works in doubles and clamps against 1e-20.  A      *)
(* number is a pair <<n, e>> standing for n + e * 1e-20, n an integer of   *)
(* ordinary magnitude; a double of ordinary magnitude absorbs a term of    *)
(* 1e-20, so e = 0 whenever n # 0.                                         *)
(*                                                                         *)
(* Vectors given to position and focal_point lie on the z axis (the view   *)
(* axis of a new camera), where distance and direction of projection are   *)
(* exact.  Clipping values are in units of 0.01 (the default near plane).  *)
(***************************************************************************)
EXTENDS Integers, Sequences, FiniteSets, TLC

\* ------------------------------------------------------------------ bounds
MaxCoord == 1
MaxClip == 2
MaxUp == 2
MaxObservers == 1

\* ----------------------------------------------------------------- numbers
Num(n) == <<n, 0>>

Eps == <<0, 1>>

Absorb(n, e) == IF n # 0 THEN <<n, 0>> ELSE <<0, e>>

NumAdd(x, y) == Absorb(x[1] + y[1], x[2] + y[2])

NumSub(x, y) == Absorb(x[1] - y[1], x[2] - y[2])

NumLess(x, y) == x[1] < y[1] \/ (x[1] = y[1] /\ x[2] < y[2])

NumAbs(x) == IF NumLess(x, Num(0)) THEN <<-x[1], -x[2]>> ELSE x

Sgn(x) == IF NumLess(x, Num(0)) THEN -1 ELSE IF NumLess(Num(0), x) THEN 1 ELSE 0

Vec(x, y, z) == <<Num(x), Num(y), Num(z)>>

\* ------------------------------------------------------------------ inputs
\* What the operations are called with.  Each specification below takes some of
\* these sets and, for the rest, the values the camera already holds.
Vectors == {Vec(0, 0, z) : z \in 0..MaxCoord}

ClipValues == {Num(n) : n \in 0..MaxClip}

UpVectors == {<<0, 0, a>> : a \in (-MaxUp)..MaxUp}

Scales == {2}

ZoomValues == {0, 2}

Observers == 1..MaxObservers

Identity4 == <<<<1, 0, 0, 0>>, <<0, 1, 0, 0>>, <<0, 0, 1, 0>>, <<0, 0, 0, 1>>>>

Translate4 == <<<<1, 0, 0, 5>>, <<0, 1, 0, 6>>, <<0, 0, 1, 7>>, <<0, 0, 0, 1>>>>

Nines4 == [i \in 1..4 |-> [j \in 1..4 |-> 9]]

Matrices == {Identity4, Translate4}

\* ------------------------------------------------------------------ engine
\* vtkCamera::vtkCamera: the state of a new engine camera.
NewEngine ==
    [Position |-> Vec(0, 0, 1),
     FocalPoint |-> Vec(0, 0, 0),
     Distance |-> Num(1),
     DirectionOfProjection |-> <<0, 0, -1>>,
     ViewUp |-> <<0, 1, 0>>,
     ClippingRange |-> <<Num(1), Num(100001)>>,
     Thickness |-> Num(100000),
     ParallelScale |-> 1,
     ViewAngle |-> 30,
     ParallelProjection |-> FALSE,
     ModelTransformMatrix |-> Identity4,
     Observers |-> {}]

\* vtkCamera::ComputeDistance, run when the position or the focal point changed:
\* a distance under 1e-20 is raised to 1e-20 and the focal point moved to
\* Position + DirectionOfProjection * 1e-20.
ComputeDistance(e) ==
    LET d == [i \in 1..3 |-> NumSub(e.FocalPoint[i], e.Position[i])]
        dist == NumAdd(NumAbs(d[1]), NumAdd(NumAbs(d[2]), NumAbs(d[3])))
        small == NumLess(dist, Eps)
        vec == e.DirectionOfProjection
    IN  [e EXCEPT
           !.Distance = IF small THEN Eps ELSE dist,
           !.FocalPoint = IF small
                          THEN [i \in 1..3 |-> NumAdd(e.Position[i], <<0, vec[i]>>)]
                          ELSE e.FocalPoint,
           !.DirectionOfProjection = [i \in 1..3 |-> Sgn(d[i])]]

GetPosition(e) == e.Position

SetPosition(e, v) ==
    IF v = e.Position THEN e ELSE ComputeDistance([e EXCEPT !.Position = v])

GetFocalPoint(e) == e.FocalPoint

SetFocalPoint(e, v) ==
    IF v = e.FocalPoint THEN e ELSE ComputeDistance([e EXCEPT !.FocalPoint = v])

GetDistance(e) == e.Distance

\* vtkCamera::SetViewUp: the vector is normalised; the zero vector becomes (0, 1, 0).
\* The vectors of UpVectors have one non-zero component, whose absolute value is
\* their length.
Length(v) == (IF v[1] < 0 THEN -v[1] ELSE v[1]) + (IF v[2] < 0 THEN -v[2] ELSE v[2])
             + (IF v[3] < 0 THEN -v[3] ELSE v[3])

Normalize(v) ==
    IF Length(v) = 0 THEN <<0, 1, 0>> ELSE [i \in 1..3 |-> v[i] \div Length(v)]

GetViewUp(e) == e.ViewUp

SetViewUp(e, v) == [e EXCEPT !.ViewUp = Normalize(v)]

\* vtkCamera::SetClippingRange: a reversed pair is swapped, a near plane under
\* 1e-20 is raised to 1e-20 (the far plane moves by the same amount), and the
\* thickness is at least 1e-20.
GetClippingRange(e) == e.ClippingRange

SetClippingRange(e, nearz, farz) ==
    LET n1 == IF NumLess(farz, nearz) THEN farz ELSE nearz
        f1 == IF NumLess(farz, nearz) THEN nearz ELSE farz
        n2 == IF NumLess(n1, Eps) THEN Eps ELSE n1
        f2 == IF NumLess(n1, Eps) THEN NumAdd(f1, NumSub(Eps, n1)) ELSE f1
        t2 == NumSub(f2, n2)
        t3 == IF NumLess(t2, Eps) THEN Eps ELSE t2
        f3 == IF NumLess(t2, Eps) THEN NumAdd(n2, Eps) ELSE f2
    IN  [e EXCEPT !.ClippingRange = <<n2, f3>>, !.Thickness = t3]

\* vtkCamera::SetThickness: at least 1e-20; the far plane follows the near plane.
GetThickness(e) == e.Thickness

SetThickness(e, s) ==
    IF s = e.Thickness THEN e
    ELSE LET t == IF NumLess(s, Eps) THEN Eps ELSE s
         IN  [e EXCEPT !.Thickness = t,
                       !.ClippingRange = <<e.ClippingRange[1], NumAdd(e.ClippingRange[1], t)>>]

GetParallelScale(e) == e.ParallelScale

SetParallelScale(e, scale) == [e EXCEPT !.ParallelScale = scale]

SetViewAngle(e, angle) == [e EXCEPT !.ViewAngle = angle]

\* vtkCamera::Zoom: an amount <= 0 is ignored; a parallel camera divides its
\* scale by the amount, a perspective one its view angle.
Zoom(e, amount) ==
    IF amount <= 0 THEN e
    ELSE IF e.ParallelProjection THEN SetParallelScale(e, e.ParallelScale \div amount)
    ELSE SetViewAngle(e, e.ViewAngle \div amount)

\* The amounts whose division is exact in the integers of the model.
ZoomExact(e, amount) ==
    IF amount <= 0 THEN TRUE
    ELSE IF e.ParallelProjection THEN e.ParallelScale % amount = 0
    ELSE e.ViewAngle % amount = 0

GetParallelProjection(e) == e.ParallelProjection

SetParallelProjection(e, flag) == [e EXCEPT !.ParallelProjection = flag]

GetModelTransformMatrix(e) == e.ModelTransformMatrix

SetModelTransformMatrix(e, m) == [e EXCEPT !.ModelTransformMatrix = m]

\* vtkMatrix4x4::DeepCopy(const double elements[16]): row by row into the matrix.
DeepCopyFromFlat(flat) == [i \in 1..4 |-> [j \in 1..4 |-> flat[4 * (i - 1) + j]]]

\* vtkMatrix4x4::DeepCopy(double dest[16], vtkMatrix4x4* source): row by row out of it.
DeepCopyToFlat(m) == [k \in 1..16 |-> m[((k - 1) \div 4) + 1][((k - 1) % 4) + 1]]

\* vtkObject::AddObserver and RemoveAllObservers.
AddObserver(e, o) == [e EXCEPT !.Observers = @ \cup {o}]

RemoveAllObservers(e) == [e EXCEPT !.Observers = {}]

\* ------------------------------------------------------------------- state
VARIABLES
    engine,                     \* the vtkCamera the descriptor inherits from
    _position,                  \* self._position
    _focus,                     \* self._focus
    _is_parallel_projection,    \* self._is_parallel_projection
    parent,                     \* self.parent: "unset", "renderer" or "None"
    alive,                      \* FALSE once __del__ has run
    held,                       \* the array the caller got from model_transform_matrix
    op,                         \* the last operation
    arg,                        \* its argument, <<>> when it has none
    ret,                        \* <<v>> when it returned v, <<>> when it returned None
    raised,                     \* the exception it raised, "none" otherwise
    calls,                      \* the engine methods it called, in order
    lastFlag,                   \* the flag of the last enable/disable operation
    registered                  \* the observers registered since construction

vars == <<engine, _position, _focus, _is_parallel_projection, parent, alive, held,
          op, arg, ret, raised, calls, lastFlag, registered>>

cache == <<_position, _focus, _is_parallel_projection>>

None == <<>>

Some(v) == <<v>>

Done(o, a, r, c) ==
    /\ op' = o
    /\ arg' = a
    /\ ret' = r
    /\ raised' = "none"
    /\ calls' = c

\* Camera.__init__
Init ==
    /\ engine = NewEngine
    /\ _position = GetPosition(NewEngine)
    /\ _focus = GetFocalPoint(NewEngine)
    /\ _is_parallel_projection = FALSE
    /\ parent = "unset"
    /\ alive = TRUE
    /\ held = None
    /\ op = "__init__"
    /\ arg = None
    /\ ret = None
    /\ raised = "none"
    /\ calls = <<"GetPosition", "GetFocalPoint">>
    /\ lastFlag = FALSE
    /\ registered = {}

\* -------------------------------------------------------------- properties
\* What each read-only attribute evaluates to.
position == _position

focal_point == _focus

\* numpy's ravel of a 4x4 array: its 16 elements row by row.
ravel_by_column(matrix) == [k \in 1..16 |-> matrix[((k - 1) % 4) + 1][((k - 1) \div 4) + 1]]

ravel(matrix) == [k \in 1..16 |-> matrix[((k - 1) \div 4) + 1][((k - 1) % 4) + 1]]

\* The 4x4 array of which `flat` is the ravel (matrix.ravel() is a view of matrix).
unravel(flat) == [i \in 1..4 |-> [j \in 1..4 |-> flat[4 * (i - 1) + j]]]

model_transform_matrix == unravel(DeepCopyToFlat(GetModelTransformMatrix(engine)))

is_parallel_projection_from_engine == GetParallelProjection(engine)

is_parallel_projection == _is_parallel_projection

distance == GetDistance(engine)

thickness == GetThickness(engine)

parallel_scale == GetParallelScale(engine)

clipping_range == GetClippingRange(engine)

\* -------------------------------------------------------------- operations
position_get ==
    /\ alive
    /\ Done("position", None, Some(position), <<>>)
    /\ UNCHANGED <<engine, cache, parent, alive, held, lastFlag, registered>>

\* As position_set, and the cached focal point is read again as well.
position_set_refreshes_focus(value) ==
    /\ alive
    /\ engine' = SetPosition(engine, value)
    /\ _position' = GetPosition(engine')
    /\ _focus' = GetFocalPoint(engine')
    /\ Done("position=", Some(value), None, <<"SetPosition", "GetPosition">>)
    /\ UNCHANGED <<_is_parallel_projection, parent, alive, held, lastFlag, registered>>

position_set(value) ==
    /\ alive
    /\ engine' = SetPosition(engine, value)
    /\ _position' = GetPosition(engine')
    /\ Done("position=", Some(value), None, <<"SetPosition", "GetPosition">>)
    /\ UNCHANGED <<_focus, _is_parallel_projection, parent, alive, held, lastFlag, registered>>

focal_point_get ==
    /\ alive
    /\ Done("focal_point", None, Some(focal_point), <<>>)
    /\ UNCHANGED <<engine, cache, parent, alive, held, lastFlag, registered>>

\* As focal_point_set, but the input is cached instead of the engine's value.
focal_point_set_caches_input(point) ==
    /\ alive
    /\ engine' = SetFocalPoint(engine, point)
    /\ _focus' = point
    /\ Done("focal_point=", Some(point), None, <<"SetFocalPoint", "GetFocalPoint">>)
    /\ UNCHANGED <<_position, _is_parallel_projection, parent, alive, held, lastFlag, registered>>

focal_point_set(point) ==
    /\ alive
    /\ engine' = SetFocalPoint(engine, point)
    /\ _focus' = GetFocalPoint(engine')
    /\ Done("focal_point=", Some(point), None, <<"SetFocalPoint", "GetFocalPoint">>)
    /\ UNCHANGED <<_position, _is_parallel_projection, parent, alive, held, lastFlag, registered>>

\* The array returned is a new one (np.empty), which the caller holds.
model_transform_matrix_get ==
    /\ alive
    /\ held' = Some([obj |-> "ndarray", val |-> model_transform_matrix])
    /\ Done("model_transform_matrix", None, Some(model_transform_matrix),
            <<"GetModelTransformMatrix">>)
    /\ UNCHANGED <<engine, cache, parent, alive, lastFlag, registered>>

model_transform_matrix_set(matrix) ==
    /\ alive
    /\ LET vtk_matrix == DeepCopyFromFlat(ravel(matrix))
       IN  engine' = SetModelTransformMatrix(engine, vtk_matrix)
    /\ Done("model_transform_matrix=", Some(matrix), None, <<"SetModelTransformMatrix">>)
    /\ UNCHANGED <<cache, parent, alive, held, lastFlag, registered>>

is_parallel_projection_get ==
    /\ alive
    /\ Done("is_parallel_projection", None, Some(is_parallel_projection), <<>>)
    /\ UNCHANGED <<engine, cache, parent, alive, held, lastFlag, registered>>

distance_get ==
    /\ alive
    /\ Done("distance", None, Some(distance), <<"GetDistance">>)
    /\ UNCHANGED <<engine, cache, parent, alive, held, lastFlag, registered>>

thickness_get ==
    /\ alive
    /\ Done("thickness", None, Some(thickness), <<"GetThickness">>)
    /\ UNCHANGED <<engine, cache, parent, alive, held, lastFlag, registered>>

thickness_set(length) ==
    /\ alive
    /\ engine' = SetThickness(engine, length)
    /\ Done("thickness=", Some(length), None, <<"SetThickness">>)
    /\ UNCHANGED <<cache, parent, alive, held, lastFlag, registered>>

parallel_scale_get ==
    /\ alive
    /\ Done("parallel_scale", None, Some(parallel_scale), <<"GetParallelScale">>)
    /\ UNCHANGED <<engine, cache, parent, alive, held, lastFlag, registered>>

parallel_scale_set(scale) ==
    /\ alive
    /\ engine' = SetParallelScale(engine, scale)
    /\ Done("parallel_scale=", Some(scale), None, <<"SetParallelScale">>)
    /\ UNCHANGED <<cache, parent, alive, held, lastFlag, registered>>

zoom(value) ==
    /\ alive
    /\ ZoomExact(engine, value)
    /\ engine' = Zoom(engine, value)
    /\ Done("zoom", Some(value), None, <<"Zoom">>)
    /\ UNCHANGED <<cache, parent, alive, held, lastFlag, registered>>

\* As up, but the call that sets the vector returns it too.
up_returns_after_set(vector) ==
    /\ alive
    /\ IF vector = None
       THEN /\ Done("up", vector, Some(GetViewUp(engine)), <<"GetViewUp">>)
            /\ UNCHANGED engine
       ELSE /\ engine' = SetViewUp(engine, vector[1])
            /\ Done("up", vector, Some(GetViewUp(engine')), <<"SetViewUp", "GetViewUp">>)
    /\ UNCHANGED <<cache, parent, alive, held, lastFlag, registered>>

\* vector is None for a call without argument.
up(vector) ==
    /\ alive
    /\ IF vector = None
       THEN /\ Done("up", vector, Some(GetViewUp(engine)), <<"GetViewUp">>)
            /\ UNCHANGED engine
       ELSE /\ engine' = SetViewUp(engine, vector[1])
            /\ Done("up", vector, None, <<"SetViewUp">>)
    /\ UNCHANGED <<cache, parent, alive, held, lastFlag, registered>>

\* As EnableParallelProjection, but the engine is always switched to parallel.
EnableParallelProjection_forwards_true(flag) ==
    /\ _is_parallel_projection' = flag
    /\ engine' = SetParallelProjection(engine, TRUE)
    /\ lastFlag' = flag
    /\ UNCHANGED <<_position, _focus, parent, alive, held, registered>>

\* The body of enable_parallel_projection, which disable_parallel_projection calls.
EnableParallelProjection(flag) ==
    /\ _is_parallel_projection' = flag
    /\ engine' = SetParallelProjection(engine, flag)
    /\ lastFlag' = flag
    /\ UNCHANGED <<_position, _focus, parent, alive, held, registered>>

\* flag is None for a call without argument: the default is True.
enable_parallel_projection(flag) ==
    /\ alive
    /\ EnableParallelProjection(IF flag = None THEN TRUE ELSE flag[1])
    /\ Done("enable_parallel_projection", flag, None, <<"SetParallelProjection">>)

disable_parallel_projection ==
    /\ alive
    /\ EnableParallelProjection(FALSE)
    /\ Done("disable_parallel_projection", None, None, <<"SetParallelProjection">>)

clipping_range_get ==
    /\ alive
    /\ Done("clipping_range", None, Some(clipping_range), <<"GetClippingRange">>)
    /\ UNCHANGED <<engine, cache, parent, alive, held, lastFlag, registered>>

\* As clipping_range_set, but the pair is forwarded before it is validated.
clipping_range_set_forwards_first(points) ==
    /\ alive
    /\ engine' = SetClippingRange(engine, points[1], points[2])
    /\ IF NumLess(points[2], points[1])
       THEN /\ op' = "clipping_range="
            /\ arg' = Some(points)
            /\ ret' = None
            /\ raised' = "ValueError"
            /\ calls' = <<"SetClippingRange">>
       ELSE Done("clipping_range=", Some(points), None, <<"SetClippingRange">>)
    /\ UNCHANGED <<cache, parent, alive, held, lastFlag, registered>>

\* As clipping_range_set, but a pair with near = far is rejected too.
clipping_range_set_strict(points) ==
    /\ alive
    /\ IF ~NumLess(points[1], points[2])
       THEN /\ op' = "clipping_range="
            /\ arg' = Some(points)
            /\ ret' = None
            /\ raised' = "ValueError"
            /\ calls' = <<>>
            /\ UNCHANGED engine
       ELSE /\ engine' = SetClippingRange(engine, points[1], points[2])
            /\ Done("clipping_range=", Some(points), None, <<"SetClippingRange">>)
    /\ UNCHANGED <<cache, parent, alive, held, lastFlag, registered>>

clipping_range_set(points) ==
    /\ alive
    /\ IF NumLess(points[2], points[1])
       THEN /\ op' = "clipping_range="
            /\ arg' = Some(points)
            /\ ret' = None
            /\ raised' = "ValueError"
            /\ calls' = <<>>
            /\ UNCHANGED engine
       ELSE /\ engine' = SetClippingRange(engine, points[1], points[2])
            /\ Done("clipping_range=", Some(points), None, <<"SetClippingRange">>)
    /\ UNCHANGED <<cache, parent, alive, held, lastFlag, registered>>

\* As __del__, but the parent is kept.
del_keeps_parent ==
    /\ alive
    /\ engine' = RemoveAllObservers(engine)
    /\ alive' = FALSE
    /\ Done("__del__", None, None, <<"RemoveAllObservers">>)
    /\ UNCHANGED <<cache, parent, held, lastFlag, registered>>

__del__ ==
    /\ alive
    /\ engine' = RemoveAllObservers(engine)
    /\ parent' = "None"
    /\ alive' = FALSE
    /\ Done("__del__", None, None, <<"RemoveAllObservers">>)
    /\ UNCHANGED <<cache, held, lastFlag, registered>>

\* ------------------------------------------------------------- environment
\* The owner of the camera registers an observer on it or makes itself its parent.
add_observer(o) ==
    /\ alive
    /\ engine' = AddObserver(engine, o)
    /\ registered' = registered \cup {o}
    /\ Done("AddObserver", Some(o), None, <<"AddObserver">>)
    /\ UNCHANGED <<cache, parent, alive, held, lastFlag>>

set_parent ==
    /\ alive
    /\ parent' = "renderer"
    /\ Done("parent=", None, None, <<>>)
    /\ UNCHANGED <<engine, cache, alive, held, lastFlag, registered>>

\* The caller overwrites the object model_transform_matrix returned.
write_held ==
    /\ alive
    /\ held # None
    /\ IF held[1].obj = "ndarray"
       THEN /\ held' = Some([held[1] EXCEPT !.val = Nines4])
            /\ UNCHANGED engine
       ELSE /\ engine' = [engine EXCEPT !.ModelTransformMatrix = Nines4]
            /\ UNCHANGED held
    /\ Done("write", None, None, <<>>)
    /\ UNCHANGED <<cache, parent, alive, lastFlag, registered>>

\* Code outside the descriptor calls the inherited SetParallelProjection.
engine_set_parallel_projection(flag) ==
    /\ alive
    /\ engine' = SetParallelProjection(engine, flag)
    /\ Done("SetParallelProjection", Some(flag), None, <<"SetParallelProjection">>)
    /\ UNCHANGED <<cache, parent, alive, held, lastFlag, registered>>

\* ----------------------------------------------------------- specifications
\* The descriptor's operations and its owner's, called with the values of the
\* given sets or with the value the attribute already has.
Operations(V, C, S, Z, U, M) ==
    \/ position_get
    \/ \E value \in V \cup {position} : position_set(value)
    \/ focal_point_get
    \/ \E point \in V \cup {focal_point} : focal_point_set(point)
    \/ model_transform_matrix_get
    \/ \E matrix \in M \cup {model_transform_matrix} : model_transform_matrix_set(matrix)
    \/ is_parallel_projection_get
    \/ distance_get
    \/ thickness_get
    \/ \E length \in C \cup {thickness} : thickness_set(length)
    \/ parallel_scale_get
    \/ \E scale \in S \cup {parallel_scale} : parallel_scale_set(scale)
    \/ \E value \in Z \cup {1} : zoom(value)
    \/ \E vector \in {None} \cup {Some(v) : v \in U \cup {GetViewUp(engine)}} : up(vector)
    \/ \E flag \in {None, Some(TRUE), Some(FALSE)} : enable_parallel_projection(flag)
    \/ disable_parallel_projection
    \/ clipping_range_get
    \/ \E points \in (C \X C) \cup {clipping_range} : clipping_range_set(points)
    \/ \E o \in Observers : add_observer(o)
    \/ set_parent
    \/ write_held
    \/ __del__

External == \E flag \in BOOLEAN : engine_set_parallel_projection(flag)

\* The descriptor's own operations alone, with every vector.
NextOwn == Operations(Vectors, {}, Scales, ZoomValues, {}, {})

SpecOwn == Init /\ [][NextOwn]_vars

\* The same, and the engine reached from outside.
Next == NextOwn \/ External

Spec == Init /\ [][Next]_vars

\* Every operation of the descriptor with an input that changes the engine.
NextAll ==
    Operations({Vec(0, 0, 0)}, {Num(2)}, Scales, ZoomValues, {<<0, 0, 2>>}, {Translate4})

SpecAll == Init /\ [][NextAll]_vars

NextClipping == Operations({}, ClipValues, {}, {}, {}, {})

SpecClipping == Init /\ [][NextClipping]_vars

NextUp == Operations({}, {}, {}, {}, UpVectors, {})

SpecUp == Init /\ [][NextUp]_vars

NextMatrix == Operations({}, {}, {}, {}, {}, Matrices)

SpecMatrix == Init /\ [][NextMatrix]_vars

\* ------------------------------------------------------------------ claims
Getters == {"position", "focal_point", "is_parallel_projection", "distance", "thickness",
            "parallel_scale", "clipping_range"}

\* C1: every clipping_range = (near, far) with near > far raises ValueError, calls
\* no engine method and leaves the engine and the three cached fields as they were.
C1_ReversedRangeRejected ==
    [][(op' = "clipping_range=" /\ NumLess(arg'[1][2], arg'[1][1]))
       => /\ raised' = "ValueError"
          /\ calls' = <<>>
          /\ engine' = engine
          /\ cache' = cache]_vars

C1_Witness ==
    /\ op = "clipping_range="
    /\ raised = "ValueError"
    /\ arg = Some(<<Num(2), Num(1)>>)
    /\ clipping_range = <<Num(1), Num(1)>>

LessEq(x, y) == ~NumLess(y, x)

\* C2 as stated: every clipping_range = (near, far) with near <= far succeeds and
\* clipping_range then reads (near, far).
C2_ReadsBackInput ==
    (op = "clipping_range=" /\ LessEq(arg[1][1], arg[1][2]))
    => (raised = "none" /\ clipping_range = arg[1])

\* C2 amended: every clipping_range = (near, far) with near <= far succeeds and is
\* forwarded to the engine; clipping_range then reads (near, far) when near is at
\* least the engine's minimum of 1e-20 and far - near is at least 1e-20.
C2_ReadsBackEngineRange ==
    (op = "clipping_range=" /\ LessEq(arg[1][1], arg[1][2]))
    => /\ raised = "none"
       /\ calls = <<"SetClippingRange">>
       /\ (LessEq(Eps, arg[1][1]) /\ LessEq(Eps, NumSub(arg[1][2], arg[1][1])))
          => clipping_range = arg[1]

C2_Witness ==
    /\ op = "clipping_range="
    /\ arg = Some(<<Num(1), Num(2)>>)
    /\ raised = "none"
    /\ clipping_range = <<Num(1), Num(2)>>

\* C3: position = v makes position read what the engine holds after the write,
\* and assigning position the value it reads after that write leaves the value
\* as it is; the same for focal_point.
C3_RoundTrip ==
    [][/\ op' = "position="
          => /\ position' = GetPosition(engine')
             /\ (op = "position=" /\ arg'[1] = position) => position' = position
       /\ op' = "focal_point="
          => /\ focal_point' = GetFocalPoint(engine')
             /\ (op = "focal_point=" /\ arg'[1] = focal_point)
                => focal_point' = focal_point]_vars

\* focal_point reads a value the engine made of the input, and it was assigned again.
C3_Witness ==
    /\ op = "focal_point="
    /\ arg[1] = focal_point
    /\ focal_point = <<Num(0), Num(0), Eps>>

\* C4: after construction and after every operation, position reads the engine's
\* position and focal_point the engine's focal point.
C4_CacheMirrorsEngine ==
    /\ position = GetPosition(engine)
    /\ focal_point = GetFocalPoint(engine)

C6_UpReadsBackInput ==
    op = "up" => IF arg = None THEN ret = Some(GetViewUp(engine))
                 ELSE ret = None /\ GetViewUp(engine) = arg[1]

\* C6 amended: up() returns the engine's up vector (the last one set, the engine's
\* default if none was) and changes no state; up(v) returns nothing and up() then
\* returns v scaled to unit length, (0, 1, 0) when v is the zero vector.
C6_UpReadsBackNormalized ==
    [][op' = "up"
       => IF arg' = None
          THEN /\ ret' = Some(GetViewUp(engine))
               /\ engine' = engine
               /\ cache' = cache
          ELSE /\ ret' = None
               /\ cache' = cache
               /\ GetViewUp(engine') = Normalize(arg'[1])]_vars

C6_Witness ==
    /\ op = "up"
    /\ arg = Some(<<0, 0, -2>>)
    /\ GetViewUp(engine) = <<0, 0, -1>>

\* C7: model_transform_matrix = M makes model_transform_matrix read M, for the
\* identity as for any other matrix; what it returns is a new array, and writing
\* into that array leaves the engine's matrix as it is.
C7_MatrixRoundTrip ==
    /\ [](op = "model_transform_matrix=" => model_transform_matrix = arg[1])
    /\ [][/\ op' = "model_transform_matrix"
             => /\ held'[1].obj = "ndarray"
                /\ ret' = Some(model_transform_matrix)
                /\ engine' = engine
          /\ op' = "write" => engine' = engine]_vars

C7_Witness ==
    /\ op = "write"
    /\ held[1].val = Nines4
    /\ model_transform_matrix = Translate4

\* C8: once __del__ has run, whatever observers were registered before, the engine
\* camera has no observer, parent is None, and nothing is done with the camera.
C8_TeardownReleases ==
    /\ [](~alive => (engine.Observers = {} /\ parent = "None"))
    /\ [][alive]_vars

C8_Witness ==
    /\ ~alive
    /\ registered = Observers
    /\ engine.Observers = {}

\* C9: after any sequence of the descriptor's own operations, started on an
\* engine in perspective mode, is_parallel_projection is the engine's mode.
C9_FlagIsEngineMode == is_parallel_projection = GetParallelProjection(engine)

C9_Witness ==
    /\ op = "zoom"
    /\ arg = Some(2)
    /\ is_parallel_projection
    /\ parallel_scale = 1

====
